---- MODULE Spec2Model ----
(***************************************************************************)
(* pq-cloud-migration: the data-protection core.                           *)
(*                                                                         *)
(*   crypto/compression.py   Compressor   (zlib, level from sensitivity)   *)
(*   crypto/zkp.py           BatchZKP     (hash commitments, JSON proof)   *)
(*   crypto/hybrid.py        HybridEncryptor (Kyber or simulated KEM +     *)
(*                                            AES-GCM)                     *)
(*   app.py                  upload: compress, chunk, prove, encrypt, on   *)
(*                           instances shared by all requests              *)
(*                                                                         *)
(* Raw payload bytes are sequences of small naturals.  Values produced by  *)
(* the cryptographic primitives (digests, keys, nonces, ciphertext) are    *)
(* sequences of symbols, a symbol being a record [t, n, a]: a tag, a       *)
(* number and the sequence of symbols it was computed from.  SHA-256 and   *)
(* AES-GCM are the ideal primitives: distinct inputs give distinct         *)
(* symbols.                                                                *)
(***************************************************************************)
EXTENDS Integers, Sequences, FiniteSets, TLC

VARIABLES
    cmp,    \* Compressor: the last call and what it returned
    zkp,    \* BatchZKP: the chunks and proof at hand, the last verify
    he,     \* HybridEncryptor instance (kyber_available) or NoInstance
    keys,   \* the keypair the caller holds
    box,    \* the (blob, metadata) pair the caller holds
    dec,    \* the last decrypt call and how it ended
    up,     \* one run of the pipeline: compressed stream, chunks, proof
    thr     \* calls in flight on the shared instances, one per thread

vars == <<cmp, zkp, he, keys, box, dec, up, thr>>

(***************************************************************************)
(* Bounds of the model.                                                    *)
(***************************************************************************)
MaxByte == 1        \* payload bytes are 0..MaxByte
MaxData == 3        \* longest payload given to compress

Byte == 0..MaxByte

RECURSIVE SeqsUpTo(_, _)
SeqsUpTo(S, n) ==
    IF n = 0 THEN {<<>>}
    ELSE LET shorter == SeqsUpTo(S, n - 1)
         IN  shorter \cup {Append(s, x) : s \in {t \in shorter : Len(t) = n - 1}, x \in S}

Min(a, b) == IF a < b THEN a ELSE b

(***************************************************************************)
(* zlib, as crypto/compression.py uses it.  A stream is the two header     *)
(* bytes (CMF, FLG: FLG carries the level class), the deflate body and the *)
(* Adler-32 of the data.  The deflate body is modelled as run-length       *)
(* tokens (count, byte); the level bounds how long a run the coder looks   *)
(* for, so a higher level never gives a longer stream.                     *)
(***************************************************************************)
ZLIB_CMF == 120
ADLER_MOD == 65521

ZlibFlg(level) ==
    IF level = 1 THEN 1
    ELSE IF level < 6 THEN 94
    ELSE IF level = 6 THEN 156
    ELSE 218

RECURSIVE AdlerA(_)
AdlerA(data) ==
    IF data = <<>> THEN 1
    ELSE (AdlerA(SubSeq(data, 1, Len(data) - 1)) + data[Len(data)]) % ADLER_MOD

RECURSIVE AdlerB(_)
AdlerB(data) ==
    IF data = <<>> THEN 0
    ELSE (AdlerB(SubSeq(data, 1, Len(data) - 1)) + AdlerA(data)) % ADLER_MOD

Adler32(data) == <<AdlerB(data), AdlerA(data)>>

\* length of the run of data[1] at the head of data, at most cap
RECURSIVE RunLen(_, _)
RunLen(data, cap) ==
    IF Len(data) <= 1 \/ cap <= 1 THEN Min(Len(data), 1)
    ELSE IF data[2] = data[1] THEN 1 + RunLen(Tail(data), cap - 1)
    ELSE 1

RECURSIVE Deflate(_, _)
Deflate(data, level) ==
    IF data = <<>> THEN <<>>
    ELSE LET k == RunLen(data, level)
         IN  <<k, data[1]>> \o Deflate(SubSeq(data, k + 1, Len(data)), level)

RECURSIVE Inflate(_)
Inflate(body) ==
    IF body = <<>> THEN <<>>
    ELSE [i \in 1..body[1] |-> body[2]] \o Inflate(SubSeq(body, 3, Len(body)))

zlib_compress(data, level) ==
    <<ZLIB_CMF, ZlibFlg(level)>> \o Deflate(data, level) \o Adler32(data)

\* zlib.decompress: [err, out]; zlib.error on a stream it cannot decode
zlib_decompress(stream) ==
    LET n    == Len(stream)
        body == SubSeq(stream, 3, n - 2)
        ok   == /\ n >= 4
                /\ stream[1] = ZLIB_CMF
                /\ stream[2] \in {1, 94, 156, 218}
                /\ Len(body) % 2 = 0
                /\ \A i \in 1..Len(body) : i % 2 = 1 => body[i] >= 1
                /\ SubSeq(stream, n - 1, n) = Adler32(Inflate(body))
    IN  IF ok THEN [err |-> "none", out |-> Inflate(body)]
        ELSE [err |-> "zlib.error", out |-> <<>>]

(***************************************************************************)
(* Compressor (crypto/compression.py)                                      *)
(***************************************************************************)
SENSITIVITY_LEVELS == [low |-> 9, medium |-> 6, high |-> 1]

DEFAULT_SENSITIVITY == "medium"

\* compress with the level fixed instead of taken from the policy
compress_fixed_level(data, sensitivity) ==
    IF sensitivity \notin DOMAIN SENSITIVITY_LEVELS
    THEN [err |-> "ValueError", level |-> 0, out |-> <<>>]
    ELSE [err |-> "none", level |-> 6, out |-> zlib_compress(data, 6)]

\* Compressor.compress: [err, level, out]; level 0 when zlib was not called
compress(data, sensitivity) ==
    IF sensitivity \notin DOMAIN SENSITIVITY_LEVELS
    THEN [err |-> "ValueError", level |-> 0, out |-> <<>>]
    ELSE LET level == SENSITIVITY_LEVELS[sensitivity]
         IN  [err |-> "none", level |-> level, out |-> zlib_compress(data, level)]

\* decompress that hands back the deflate body without inflating it
decompress_raw_body(compressed_data) ==
    [err |-> "none", out |-> SubSeq(compressed_data, 3, Len(compressed_data) - 2)]

\* Compressor.decompress: [err, out]
decompress(compressed_data) == zlib_decompress(compressed_data)

(***************************************************************************)
(* Python's float results, kept exact: a fraction [num, den] in lowest      *)
(* terms with den > 0.  int / int is the fraction of the two.              *)
(***************************************************************************)
Abs(x) == IF x < 0 THEN -x ELSE x

RECURSIVE GCD(_, _)
GCD(a, b) == IF b = 0 THEN a ELSE GCD(b, a % b)

\* n / d for d > 0
Frac(n, d) ==
    LET g == GCD(Abs(n), d)
    IN  [num |-> n \div g, den |-> d \div g]

FracSub(x, y) == Frac(x.num * y.den - y.num * x.den, x.den * y.den)

FracMul(x, y) == Frac(x.num * y.num, x.den * y.den)

\* get_compression_ratio with negative results raised to 0
get_compression_ratio_clamped(original_size, compressed_size) ==
    IF original_size = 0 \/ compressed_size > original_size THEN Frac(0, 1)
    ELSE FracMul(FracSub(Frac(1, 1), Frac(compressed_size, original_size)), Frac(100, 1))

\* Compressor.get_compression_ratio
get_compression_ratio(original_size, compressed_size) ==
    IF original_size = 0 THEN Frac(0, 1)
    ELSE FracMul(FracSub(Frac(1, 1), Frac(compressed_size, original_size)), Frac(100, 1))

MaxSize == 4        \* largest size given to get_compression_ratio

\* what a caller passes for sensitivity: a level, another string, or nothing
NoArg == "(omitted)"
SensitivityArgs == {"low", "medium", "high", "bogus", NoArg}

NoCall == [call |-> "none", data |-> <<>>, arg |-> NoArg, sensitivity |-> NoArg,
           err |-> "none", level |-> 0, out |-> <<>>, back |-> <<>>,
           original_size |-> 0, compressed_size |-> 0, ratio |-> Frac(0, 1)]

\* compressor.compress(data) or compressor.compress(data, arg)
Compress ==
    \E data \in SeqsUpTo(Byte, MaxData), arg \in SensitivityArgs :
        LET sensitivity == IF arg = NoArg THEN DEFAULT_SENSITIVITY ELSE arg
            r == compress(data, sensitivity)
        IN  cmp' = [NoCall EXCEPT !.call = "compress", !.data = data, !.arg = arg,
                                  !.sensitivity = sensitivity, !.err = r.err,
                                  !.level = r.level, !.out = r.out]

\* compressor.decompress(out) on the stream the last compress returned
Decompress ==
    /\ cmp.call = "compress"
    /\ cmp.err = "none"
    /\ LET r == decompress(cmp.out)
       IN  cmp' = [cmp EXCEPT !.call = "decompress", !.err = r.err, !.back = r.out]

\* compressor.get_compression_ratio(original_size, compressed_size)
GetCompressionRatio ==
    \E original_size \in 0..MaxSize, compressed_size \in 0..MaxSize :
        cmp' = [NoCall EXCEPT !.call = "ratio",
                              !.original_size = original_size,
                              !.compressed_size = compressed_size,
                              !.ratio = get_compression_ratio(original_size,
                                                              compressed_size)]

CompressorInit ==
    /\ cmp = NoCall
    /\ zkp = <<>>
    /\ he = <<>>
    /\ keys = <<>>
    /\ box = <<>>
    /\ dec = <<>>
    /\ up = <<>>
    /\ thr = <<>>

CompressorNext ==
    \/ Compress /\ UNCHANGED <<zkp, he, keys, box, dec, up, thr>>
    \/ Decompress /\ UNCHANGED <<zkp, he, keys, box, dec, up, thr>>
    \/ GetCompressionRatio /\ UNCHANGED <<zkp, he, keys, box, dec, up, thr>>

CompressorSpec == CompressorInit /\ [][CompressorNext]_vars

(***************************************************************************)
(* Symbols: the values of the cryptographic primitives.                    *)
(***************************************************************************)
Sym(t, n, a) == [t |-> t, n |-> n, a |-> a]

\* raw bytes as a sequence of symbols
Bytes(data) == [i \in 1..Len(data) |-> Sym("byte", data[i], <<>>)]

\* a fixed text
Text(name) == <<Sym(name, 0, <<>>)>>

\* hashlib.sha256(x).hexdigest(): a fixed-length string, here one symbol
sha256_hexdigest(x) == <<Sym("sha256hex", 0, x)>>

\* hashlib.sha256(x).digest(): fixed-length bytes, here one symbol
sha256_digest(x) == <<Sym("sha256", 0, x)>>

RECURSIVE Join(_)
Join(strings) ==
    IF strings = <<>> THEN <<>> ELSE Head(strings) \o Join(Tail(strings))

(***************************************************************************)
(* Python values as json.loads returns them and as == compares them:       *)
(* [ty, s, i, l] with ty the type, s the text of a str, i the number of an *)
(* int or bool, l the items of a list.  A dict is a function from its keys.*)
(***************************************************************************)
PyStr(s) == [ty |-> "str", s |-> s, i |-> 0, l |-> <<>>]
PyInt(i) == [ty |-> "int", s |-> <<>>, i |-> i, l |-> <<>>]
PyBool(b) == [ty |-> "bool", s |-> <<>>, i |-> IF b THEN 1 ELSE 0, l |-> <<>>]
PyNone == [ty |-> "none", s |-> <<>>, i |-> 0, l |-> <<>>]
PyList(strings) == [ty |-> "list", s |-> <<>>, i |-> 0,
                    l |-> [k \in 1..Len(strings) |-> PyStr(strings[k])]]

\* a == b in Python: bool is an int, values of other types differ
PyEq(a, b) ==
    IF a.ty \in {"int", "bool"} /\ b.ty \in {"int", "bool"} THEN a.i = b.i
    ELSE a.ty = b.ty /\ a.s = b.s /\ a.l = b.l

(***************************************************************************)
(* Proof artifacts: bytes as verify sees them.  form says how far          *)
(* proof.decode() and json.loads get: "empty" is b"", "not_utf8" fails to  *)
(* decode, "not_json" fails to parse, "json" parses to top, a dict (fields)*)
(* or another JSON value.                                                  *)
(***************************************************************************)
EmptyProof == [form |-> "empty", top |-> "none", fields |-> <<>>]

\* json.dumps(proof_data).encode()
json_dumps_encode(proof_data) == [form |-> "json", top |-> "dict", fields |-> proof_data]

\* json.loads(proof.decode()): [exc, top, value]
decode_json_loads(proof) ==
    IF proof.form = "not_utf8"
    THEN [exc |-> "UnicodeDecodeError", top |-> "none", value |-> <<>>]
    ELSE IF proof.form \in {"empty", "not_json"}
    THEN [exc |-> "JSONDecodeError", top |-> "none", value |-> <<>>]
    ELSE [exc |-> "none", top |-> proof.top, value |-> proof.fields]

(***************************************************************************)
(* BatchZKP (crypto/zkp.py)                                                *)
(***************************************************************************)
PREFIX_SAMPLE == 3

PROOF_TYPE == Text("compressed_batch_merkle_lwesim")

Prefix(list, n) == SubSeq(list, 1, Min(n, Len(list)))

\* the chunks with the lowest first byte first
RECURSIVE SortedFrom(_, _)
SortedFrom(chunks, b) ==
    IF b > MaxByte THEN <<>>
    ELSE SelectSeq(chunks, LAMBDA c : c # <<>> /\ c[1] = b) \o SortedFrom(chunks, b + 1)

\* commitments taken over the sorted chunks instead of in input order
commitments_sorted(chunks) ==
    [i \in 1..Len(chunks) |-> sha256_hexdigest(Bytes(SortedFrom(chunks, 0)[i]))]

\* BatchZKP.commitments: one hex digest per chunk, in order
commitments(chunks) == [i \in 1..Len(chunks) |-> sha256_hexdigest(Bytes(chunks[i]))]

\* make_proof storing every commitment instead of the first three
make_proof_whole_list(commitment_list) ==
    IF commitment_list = <<>> THEN EmptyProof
    ELSE json_dumps_encode(
             [root              |-> PyStr(sha256_hexdigest(Join(commitment_list))),
              num_commitments   |-> PyInt(Len(commitment_list)),
              commitment_hashes |-> PyList(commitment_list),
              proof_type        |-> PyStr(PROOF_TYPE)])

\* make_proof counting the stored sample instead of the commitments
make_proof_sample_count(commitment_list) ==
    IF commitment_list = <<>> THEN EmptyProof
    ELSE json_dumps_encode(
             [root              |-> PyStr(sha256_hexdigest(Join(commitment_list))),
              num_commitments   |-> PyInt(Len(Prefix(commitment_list, PREFIX_SAMPLE))),
              commitment_hashes |-> PyList(Prefix(commitment_list, PREFIX_SAMPLE)),
              proof_type        |-> PyStr(PROOF_TYPE)])

\* BatchZKP.make_proof
make_proof(commitment_list) ==
    IF commitment_list = <<>> THEN EmptyProof
    ELSE LET combined == Join(commitment_list)
             root     == sha256_hexdigest(combined)
             proof_data ==
                 [root              |-> PyStr(root),
                  num_commitments   |-> PyInt(Len(commitment_list)),
                  commitment_hashes |-> PyList(Prefix(commitment_list, PREFIX_SAMPLE)),
                  proof_type        |-> PyStr(PROOF_TYPE)]
         IN  json_dumps_encode(proof_data)

\* the root check left out
RootDiffers_skipped(recomputed_root, proof_data) == FALSE

\* line 106: recomputed_root != proof_data["root"]
RootDiffers(recomputed_root, proof_data) ==
    ~PyEq(PyStr(recomputed_root), proof_data["root"])

\* line 110: len(commitments) != proof_data["num_commitments"]
CountDiffers(commitment_list, proof_data) ==
    ~PyEq(PyInt(Len(commitment_list)), proof_data["num_commitments"])

\* the prefix sample check left out
PrefixDiffers_skipped(commitment_list, proof_data) == FALSE

\* line 114: proof_data.get("commitment_hashes", []) != commitments[:3]
PrefixDiffers(commitment_list, proof_data) ==
    ~PyEq(IF "commitment_hashes" \in DOMAIN proof_data
             THEN proof_data["commitment_hashes"] ELSE PyList(<<>>),
          PyList(Prefix(commitment_list, PREFIX_SAMPLE)))

\* the try block of BatchZKP.verify, lines 94-117: [exc, ret]
VerifyTry(chunks, proof) ==
    LET loaded          == decode_json_loads(proof)
        proof_data      == loaded.value
        commitment_list == commitments(chunks)
        combined        == Join(commitment_list)
        recomputed_root == sha256_hexdigest(combined)
        Raise(e)        == [exc |-> e, ret |-> FALSE]
        Return(b)       == [exc |-> "none", ret |-> b]
    IN  IF loaded.exc # "none" THEN Raise(loaded.exc)
        ELSE IF loaded.top # "dict" THEN Raise("TypeError")
        ELSE IF "root" \notin DOMAIN proof_data THEN Raise("KeyError")
        ELSE IF RootDiffers(recomputed_root, proof_data) THEN Return(FALSE)
        ELSE IF "num_commitments" \notin DOMAIN proof_data THEN Raise("KeyError")
        ELSE IF CountDiffers(commitment_list, proof_data) THEN Return(FALSE)
        ELSE IF PrefixDiffers(commitment_list, proof_data) THEN Return(FALSE)
        ELSE Return(TRUE)

\* verify without its except clause
verify_no_except(chunks, proof) ==
    IF proof.form = "empty" \/ chunks = <<>> THEN [exc |-> "none", ret |-> FALSE]
    ELSE VerifyTry(chunks, proof)

\* BatchZKP.verify: [exc, ret]; exc is an exception that leaves verify
verify(chunks, proof) ==
    IF proof.form = "empty" \/ chunks = <<>> THEN [exc |-> "none", ret |-> FALSE]
    ELSE LET r == VerifyTry(chunks, proof)
         IN  IF r.exc # "none" THEN [exc |-> "none", ret |-> FALSE] ELSE r

(***************************************************************************)
(* len(proof): the length of the artifact in bytes.  A hex digest is 64     *)
(* characters, the scheme tag 30; a JSON text adds its quotes, brackets,   *)
(* keys and separators.                                                    *)
(***************************************************************************)
HEX_DIGEST_LEN == 64
PROOF_TYPE_LEN == 30

RECURSIVE SumOver(_, _)
SumOver(f, S) ==
    IF S = {} THEN 0
    ELSE LET x == CHOOSE y \in S : TRUE IN f[x] + SumOver(f, S \ {x})

StrLen(text) ==
    2 + SumOver([k \in 1..Len(text) |->
                    IF text[k].t = "sha256hex" THEN HEX_DIGEST_LEN ELSE PROOF_TYPE_LEN],
                1..Len(text))

\* length of json.dumps(v) for a value v
ValueLen(v) ==
    IF v.ty = "str" THEN StrLen(v.s)
    ELSE IF v.ty = "int" THEN 1
    ELSE IF v.ty = "bool" THEN 4
    ELSE IF v.ty = "none" THEN 4
    ELSE 2 + SumOver([k \in 1..Len(v.l) |-> StrLen(v.l[k].s) + 2], 1..Len(v.l))

KeyLen(key) ==
    IF key = "root" THEN 4
    ELSE IF key = "num_commitments" THEN 15
    ELSE IF key = "commitment_hashes" THEN 17
    ELSE 10

\* len(proof)
len_bytes(proof) ==
    IF proof.form = "empty" THEN 0
    ELSE IF proof.form \in {"not_utf8", "not_json"} THEN 1
    ELSE IF proof.top # "dict" THEN (IF proof.top = "none" THEN 4 ELSE 2)
    ELSE 2 + SumOver([key \in DOMAIN proof.fields |->
                         KeyLen(key) + 6 + ValueLen(proof.fields[key])],
                     DOMAIN proof.fields)

(***************************************************************************)
(* BatchZKP.get_proof_size_info.  The result is a dict with proof_bytes    *)
(* alone (full = FALSE) or with all four entries; compression_ratio, a     *)
(* float, is kept as the pair <<dividend, divisor>> of its division.       *)
(***************************************************************************)
BYTES_PER_COMMITMENT == 32

SizeOnly(proof) ==
    [exc |-> "none", full |-> FALSE, proof_bytes |-> len_bytes(proof),
     num_commitments |-> PyNone, proof_type |-> PyNone, compression_ratio |-> <<0, 1>>]

\* the try block, lines 148-156: [exc, full, ...]
SizeInfoTry(proof) ==
    LET loaded     == decode_json_loads(proof)
        proof_data == loaded.value
        Get(key, default) ==
            IF key \in DOMAIN proof_data THEN proof_data[key] ELSE default
        count      == Get("num_commitments", PyInt(1))
        Raise(e)   == [SizeOnly(proof) EXCEPT !.exc = e]
    IN  IF loaded.exc # "none" THEN Raise(loaded.exc)
        ELSE IF loaded.top # "dict" THEN Raise("AttributeError")
        ELSE IF count.ty \notin {"int", "bool"} THEN Raise("TypeError")
        ELSE IF count.i = 0 THEN Raise("ZeroDivisionError")
        ELSE [exc |-> "none", full |-> TRUE, proof_bytes |-> len_bytes(proof),
              num_commitments |-> Get("num_commitments", PyInt(0)),
              proof_type |-> Get("proof_type", PyStr(Text("unknown"))),
              compression_ratio |-> <<len_bytes(proof), BYTES_PER_COMMITMENT * count.i>>]

\* get_proof_size_info without its except clause
get_proof_size_info_no_except(proof) == SizeInfoTry(proof)

\* BatchZKP.get_proof_size_info
get_proof_size_info(proof) ==
    LET r == SizeInfoTry(proof)
    IN  IF r.exc # "none" THEN SizeOnly(proof) ELSE r

(***************************************************************************)
(* BatchZKP calls.  The caller makes a proof from a chunk sequence; what   *)
(* verify is later handed may differ from it: one chunk replaced, no chunk *)
(* at all, the proof artifact replaced by another one.                     *)
(***************************************************************************)
MaxChunks == 4      \* longest chunk sequence

Chunk == {<<b>> : b \in Byte}

NoZkp == [made |-> <<>>, chunks |-> <<>>, proof |-> EmptyProof, edit |-> "none",
          pos |-> 0, forged |-> "none", call |-> "none", ret |-> FALSE, exc |-> "none",
          info |-> SizeOnly(EmptyProof)]

\* zkp.batch_commit(chunks) on at most n chunks: commitments, then
\* make_proof.  BatchZKP keeps nothing between calls, so a behaviour follows
\* one proof.
BatchCommitUpTo(n) ==
    /\ zkp.call = "none"
    /\ \E cs \in SeqsUpTo(Chunk, n) :
        zkp' = [NoZkp EXCEPT !.made = cs, !.chunks = cs,
                             !.proof = make_proof(commitments(cs)),
                             !.call = "batch_commit"]

BatchCommit == BatchCommitUpTo(MaxChunks)

\* one chunk of the sequence is replaced by a chunk with other bytes
ReplaceChunk ==
    /\ zkp.call # "none"
    /\ zkp.edit = "none"
    /\ \E i \in 1..Len(zkp.chunks), c \in Chunk :
          /\ c # zkp.chunks[i]
          /\ zkp' = [zkp EXCEPT !.chunks[i] = c, !.edit = "replace", !.pos = i,
                                !.call = "edit", !.ret = FALSE, !.exc = "none",
                                !.info = SizeOnly(EmptyProof)]

\* verify is handed an empty chunk list
DropChunks ==
    /\ zkp.call # "none"
    /\ zkp.edit = "none"
    /\ zkp' = [zkp EXCEPT !.chunks = <<>>, !.edit = "drop",
                          !.call = "edit", !.ret = FALSE, !.exc = "none",
                          !.info = SizeOnly(EmptyProof)]

\* artifacts that are no proof record
Malformed ==
    {EmptyProof,
     [form |-> "not_utf8", top |-> "none", fields |-> <<>>],
     [form |-> "not_json", top |-> "none", fields |-> <<>>]}
    \cup {[form |-> "json", top |-> t, fields |-> <<>>] : t \in {"list", "int", "str", "none"}}

\* records an adversary builds for the chunks a proof was made from: each of
\* root, count and prefix sample kept or changed, a field given another
\* type, a field left out
Forgeries(made) ==
    LET cl     == commitments(made)
        n      == Len(cl)
        honest == make_proof(cl).fields
        other  == sha256_hexdigest(<<>>)
        roots  == {honest["root"], PyStr(other)}
        counts == {PyInt(n - 1), PyInt(n), PyInt(n + 1)}
        prefs  == {honest["commitment_hashes"],
                   PyList(Prefix(cl, Min(n, PREFIX_SAMPLE) - 1)),
                   PyList(Append(Prefix(cl, PREFIX_SAMPLE), other))}
        mixed  == {[honest EXCEPT !["root"] = r, !["num_commitments"] = c,
                                  !["commitment_hashes"] = p] :
                      r \in roots, c \in counts, p \in prefs}
        typed  == {[honest EXCEPT !["root"] = PyInt(0)],
                   [honest EXCEPT !["num_commitments"] = PyBool(TRUE)],
                   [honest EXCEPT !["num_commitments"] = PyStr(other)],
                   [honest EXCEPT !["commitment_hashes"] = PyNone]}
        less   == {[k \in DOMAIN honest \ {gone} |-> honest[k]] : gone \in DOMAIN honest}
    IN  {json_dumps_encode(d) : d \in (mixed \cup typed \cup less) \ {honest}}

\* verify is handed another artifact than the one make_proof returned
ForgeProof ==
    /\ zkp.call # "none"
    /\ zkp.forged = "none"
    /\ \E p \in Malformed \cup (IF zkp.made = <<>> THEN {} ELSE Forgeries(zkp.made)) :
          /\ p # zkp.proof
          /\ zkp' = [zkp EXCEPT !.proof = p, !.forged = "forged",
                                !.call = "edit", !.ret = FALSE, !.exc = "none",
                                !.info = SizeOnly(EmptyProof)]

\* zkp.verify(chunks, proof)
Verify ==
    /\ zkp.call \in {"batch_commit", "edit"}
    /\ LET r == verify(zkp.chunks, zkp.proof)
       IN  zkp' = [zkp EXCEPT !.call = "verify", !.ret = r.ret, !.exc = r.exc]

\* zkp.get_proof_size_info(proof)
GetProofSizeInfo ==
    /\ zkp.call \in {"batch_commit", "edit"}
    /\ LET r == get_proof_size_info(zkp.proof)
       IN  zkp' = [zkp EXCEPT !.call = "size_info", !.exc = r.exc, !.info = r]

ZkpInit ==
    /\ cmp = <<>>
    /\ zkp = NoZkp
    /\ he = <<>>
    /\ keys = <<>>
    /\ box = <<>>
    /\ dec = <<>>
    /\ up = <<>>
    /\ thr = <<>>

ZkpNext ==
    \/ BatchCommit /\ UNCHANGED <<cmp, he, keys, box, dec, up, thr>>
    \/ ReplaceChunk /\ UNCHANGED <<cmp, he, keys, box, dec, up, thr>>
    \/ DropChunks /\ UNCHANGED <<cmp, he, keys, box, dec, up, thr>>
    \/ ForgeProof /\ UNCHANGED <<cmp, he, keys, box, dec, up, thr>>
    \/ Verify /\ UNCHANGED <<cmp, he, keys, box, dec, up, thr>>
    \/ GetProofSizeInfo /\ UNCHANGED <<cmp, he, keys, box, dec, up, thr>>

ZkpSpec == ZkpInit /\ [][ZkpNext]_vars

(***************************************************************************)
(* Chunk order.  verify is handed the chunks a proof was made from in      *)
(* another order, with the proof as make_proof returned it.  The sequences *)
(* are long enough for a reordering that leaves the sampled first three    *)
(* chunks in place.                                                        *)
(***************************************************************************)
MaxOrdered == 5     \* longest chunk sequence that is reordered

\* b holds the chunks of a, each as often as a does
IsReordering(a, b) ==
    /\ Len(a) = Len(b)
    /\ \A c \in Chunk : Cardinality({i \in 1..Len(a) : a[i] = c})
                          = Cardinality({i \in 1..Len(b) : b[i] = c})

\* the chunks are put in another order; pos is the first position that then
\* holds other bytes
ReorderChunks ==
    /\ zkp.call = "batch_commit"
    /\ \E cs \in SeqsUpTo(Chunk, Len(zkp.chunks)) :
          /\ IsReordering(zkp.chunks, cs)
          /\ cs # zkp.chunks
          /\ zkp' = [zkp EXCEPT !.chunks = cs, !.edit = "reorder",
                                !.pos = CHOOSE i \in 1..Len(cs) :
                                           /\ cs[i] # zkp.chunks[i]
                                           /\ \A j \in 1..(i - 1) : cs[j] = zkp.chunks[j],
                                !.call = "edit"]

OrderNext ==
    \/ BatchCommitUpTo(MaxOrdered) /\ UNCHANGED <<cmp, he, keys, box, dec, up, thr>>
    \/ ReorderChunks /\ UNCHANGED <<cmp, he, keys, box, dec, up, thr>>
    \/ Verify /\ UNCHANGED <<cmp, he, keys, box, dec, up, thr>>

OrderSpec == ZkpInit /\ [][OrderNext]_vars

(***************************************************************************)
(* Primitives of crypto/hybrid.py.                                         *)
(*                                                                         *)
(* os.urandom draws are numbered 1..MaxRand.  A 32-byte value (a digest, a *)
(* seed, a shared secret) is one symbol; the nonce keeps its 12 bytes, the *)
(* AES-GCM tag is one symbol after the ciphertext bytes.                   *)
(***************************************************************************)
MaxRand == 1        \* distinct outcomes of each os.urandom draw
MaxPlain == 1       \* longest plaintext given to encrypt

NONCE_LEN == 12
SECRET_LEN == 1     \* the 32 bytes of shared_secret[:32], as symbols

Rand == 1..MaxRand

urandom32(k) == <<Sym("random32", k, <<>>)>>

urandom12(k) == [i \in 1..NONCE_LEN |-> Sym("random", k, <<>>)]

\* base64.b64encode(x).decode()
b64encode(x) == <<Sym("b64", 0, x)>>

\* base64.b64decode(s)
b64decode(s) == s[1].a

\* liboqs KeyEncapsulation("Kyber512"): generate_keypair / export_secret_key
kyber_keypair(k) ==
    [pub |-> <<Sym("kyber_pk", k, <<>>)>>, priv |-> <<Sym("kyber_sk", k, <<>>)>>]

\* liboqs encap_secret against public_key, with the library's randomness r
kyber_encap(public_key, r) ==
    [kem_ciphertext |-> <<Sym("kyber_ct", r, public_key)>>,
     shared_secret  |-> <<Sym("kyber_ss", r, public_key)>>]

\* liboqs decap_secret: the encapsulated secret when kem_ciphertext was made
\* for the public key of private_key, an unrelated secret otherwise
kyber_decap(private_key, kem_ciphertext) ==
    LET c == kem_ciphertext[1]
        k == private_key[1]
    IN  IF /\ c.t = "kyber_ct"
           /\ k.t = "kyber_sk"
           /\ c.a = kyber_keypair(k.n).pub
        THEN <<Sym("kyber_ss", c.n, c.a)>>
        ELSE <<Sym("kyber_reject", 0, private_key \o kem_ciphertext)>>

\* AESGCM(key).encrypt(nonce, plaintext, None): ciphertext bytes, then tag
aes_gcm_encrypt(key, nonce, plaintext) ==
    LET body == [i \in 1..Len(plaintext) |->
                    Sym("gcm_ct", plaintext[i], key \o nonce \o <<Sym("pos", i, <<>>)>>)]
    IN  Append(body, Sym("gcm_tag", 0, key \o nonce \o body))

\* a decryption that does not check the tag
aes_gcm_decrypt_unchecked(key, nonce, data) ==
    LET body == SubSeq(data, 1, Len(data) - 1)
    IN  [exc |-> "none", plaintext |-> [i \in 1..Len(body) |-> body[i].n]]

\* AESGCM(key).decrypt(nonce, data, None): [exc, plaintext]
aes_gcm_decrypt(key, nonce, data) ==
    LET body == SubSeq(data, 1, Len(data) - 1)
    IN  IF /\ Len(data) >= 1
           /\ data[Len(data)] = Sym("gcm_tag", 0, key \o nonce \o body)
        THEN [exc |-> "none", plaintext |-> [i \in 1..Len(body) |-> body[i].n]]
        ELSE [exc |-> "InvalidTag", plaintext |-> <<>>]

(***************************************************************************)
(* HybridEncryptor (crypto/hybrid.py)                                      *)
(***************************************************************************)
METHOD_REAL == "Kyber512+AES256GCM"
METHOD_SIMULATED == "Simulated-Kyber512+AES256GCM"

\* HybridEncryptor._simulated_kyber_keygen: [pub, priv, path, paths]; path is
\* the path that made the keypair, paths the paths entered, in order
simulated_kyber_keygen(k) ==
    LET priv_key == urandom32(k)
        pub_key  == sha256_digest(priv_key)
    IN  [pub |-> pub_key, priv |-> priv_key, path |-> "simulated",
         paths |-> <<"simulated">>]

\* HybridEncryptor._real_kyber_keygen; fails: the library raises
real_kyber_keygen(k, fails) ==
    IF fails THEN [simulated_kyber_keygen(k) EXCEPT !.paths = <<"real", "simulated">>]
    ELSE [pub |-> kyber_keypair(k).pub, priv |-> kyber_keypair(k).priv, path |-> "real",
          paths |-> <<"real">>]

\* HybridEncryptor.generate_kem_keypair
generate_kem_keypair(self, k, fails) ==
    IF self.kyber_available THEN real_kyber_keygen(k, fails)
    ELSE simulated_kyber_keygen(k)

\* HybridEncryptor._simulated_kyber_encrypt: [blob, metadata, path, paths]
simulated_kyber_encrypt(plaintext, public_key, seed, n) ==
    LET random_seed   == urandom32(seed)
        combined      == public_key \o random_seed
        shared_secret == sha256_digest(combined)
        aes_key       == Prefix(shared_secret, SECRET_LEN)
        nonce         == urandom12(n)
        ciphertext    == aes_gcm_encrypt(aes_key, nonce, plaintext)
        metadata      == [kem_ciphertext |-> b64encode(random_seed),
                          nonce          |-> b64encode(nonce),
                          method         |-> METHOD_SIMULATED]
    IN  [blob |-> nonce \o ciphertext, metadata |-> metadata, path |-> "simulated",
         paths |-> <<"simulated">>]

\* the fallback of _real_kyber_encrypt returning the real method tag
real_kyber_encrypt_real_tag(plaintext, public_key, seed, n, fails) ==
    LET s == simulated_kyber_encrypt(plaintext, public_key, seed, n)
    IN  [s EXCEPT !.metadata.method = METHOD_REAL]

\* HybridEncryptor._real_kyber_encrypt; fails: the try block raises
real_kyber_encrypt(plaintext, public_key, seed, n, fails) ==
    IF fails THEN [simulated_kyber_encrypt(plaintext, public_key, seed, n)
                       EXCEPT !.paths = <<"real", "simulated">>]
    ELSE LET kem        == kyber_encap(public_key, seed)
             aes_key    == Prefix(kem.shared_secret, SECRET_LEN)
             nonce      == urandom12(n)
             ciphertext == aes_gcm_encrypt(aes_key, nonce, plaintext)
             metadata   == [kem_ciphertext |-> b64encode(kem.kem_ciphertext),
                            nonce          |-> b64encode(nonce),
                            method         |-> METHOD_REAL]
         IN  [blob |-> nonce \o ciphertext, metadata |-> metadata, path |-> "real",
              paths |-> <<"real">>]

\* HybridEncryptor.encrypt
encrypt(self, plaintext, public_key, seed, n, fails) ==
    IF self.kyber_available THEN real_kyber_encrypt(plaintext, public_key, seed, n, fails)
    ELSE simulated_kyber_encrypt(plaintext, public_key, seed, n)

\* HybridEncryptor._simulated_kyber_decrypt: [exc, plaintext, paths, nonce];
\* nonce is the nonce handed to AESGCM.decrypt
simulated_kyber_decrypt(ciphertext, metadata, private_key) ==
    LET kem_ciphertext       == b64decode(metadata.kem_ciphertext)
        nonce                == b64decode(metadata.nonce)
        public_key_recovered == sha256_digest(private_key)
        combined             == public_key_recovered \o kem_ciphertext
        shared_secret        == sha256_digest(combined)
        aes_key              == Prefix(shared_secret, SECRET_LEN)
        r == aes_gcm_decrypt(aes_key, nonce, SubSeq(ciphertext, NONCE_LEN + 1, Len(ciphertext)))
    IN  [exc |-> r.exc, plaintext |-> r.plaintext, paths |-> <<"simulated">>,
         nonce |-> nonce]

\* HybridEncryptor._real_kyber_decrypt; fails: the library raises.  Any
\* exception of the try block, InvalidTag included, goes to the simulated path.
real_kyber_decrypt(ciphertext, metadata, private_key, fails) ==
    LET kem_ciphertext == b64decode(metadata.kem_ciphertext)
        nonce          == b64decode(metadata.nonce)
        shared_secret  == kyber_decap(private_key, kem_ciphertext)
        aes_key        == Prefix(shared_secret, SECRET_LEN)
        r == aes_gcm_decrypt(aes_key, nonce, SubSeq(ciphertext, NONCE_LEN + 1, Len(ciphertext)))
        s == simulated_kyber_decrypt(ciphertext, metadata, private_key)
    IN  IF ~fails /\ r.exc = "none"
        THEN [exc |-> "none", plaintext |-> r.plaintext, paths |-> <<"real">>,
              nonce |-> nonce]
        ELSE [s EXCEPT !.paths = <<"real", "simulated">>]

\* HybridEncryptor.decrypt
decrypt(self, ciphertext, metadata, private_key, fails) ==
    IF self.kyber_available THEN real_kyber_decrypt(ciphertext, metadata, private_key, fails)
    ELSE simulated_kyber_decrypt(ciphertext, metadata, private_key)

(***************************************************************************)
(* HybridEncryptor calls.  The caller constructs an instance, generates a  *)
(* keypair, encrypts one plaintext with its public key and decrypts what   *)
(* it holds with its private key, any number of times.  Every call on the  *)
(* real path may raise inside the library (fails).  Before a decrypt one   *)
(* thing the caller holds may be altered (a byte of the blob, an entry of  *)
(* the metadata, the private key), and the process may construct a new     *)
(* instance (id) while the caller still holds keys and blob of the         *)
(* previous one.                                                           *)
(***************************************************************************)
MaxInstances == 2   \* instances constructed in one behaviour

NoInstance == [id |-> 0, use_real_kyber |-> FALSE, importable |-> FALSE,
               kyber_available |-> FALSE]
NoKeys == [held |-> FALSE, pub |-> <<>>, priv |-> <<>>, path |-> "none", paths |-> <<>>,
           inst |-> 0, altered |-> FALSE]
NoBox == [held |-> FALSE, blob |-> <<>>,
          metadata |-> [kem_ciphertext |-> <<>>, nonce |-> <<>>, method |-> "none"],
          plaintext |-> <<>>, path |-> "none", paths |-> <<>>, inst |-> 0,
          tampered |-> 0, altered |-> "none"]
NoDecrypt == [call |-> "none", fails |-> FALSE, exc |-> "none", plaintext |-> <<>>,
              paths |-> <<>>, nonce |-> <<>>, again |-> FALSE]

\* HybridEncryptor(use_real_kyber); importable: `import liboqs` succeeds
Construct ==
    /\ he.id < MaxInstances
    /\ he.id > 0 => box.held
    /\ \E use_real_kyber \in BOOLEAN, importable \in BOOLEAN :
          he' = [id |-> he.id + 1, use_real_kyber |-> use_real_kyber,
                 importable |-> importable,
                 kyber_available |-> use_real_kyber /\ importable]
    /\ dec' = NoDecrypt
    /\ UNCHANGED <<keys, box>>

\* a generate_kem_keypair whose fallback clears the instance's flag
GenerateKemKeypair_clears_flag ==
    /\ he.id > 0
    /\ ~box.held
    /\ \E k \in Rand, fails \in BOOLEAN :
          LET r == generate_kem_keypair(he, k, fails)
          IN  /\ keys' = [held |-> TRUE, pub |-> r.pub, priv |-> r.priv, path |-> r.path,
                          paths |-> r.paths, inst |-> he.id, altered |-> FALSE]
              /\ he' = [he EXCEPT !.kyber_available = @ /\ ~fails]
    /\ UNCHANGED <<box, dec>>

\* he.generate_kem_keypair()
GenerateKemKeypair ==
    /\ he.id > 0
    /\ ~box.held
    /\ \E k \in Rand, fails \in BOOLEAN :
          LET r == generate_kem_keypair(he, k, fails)
          IN  keys' = [held |-> TRUE, pub |-> r.pub, priv |-> r.priv, path |-> r.path,
                       paths |-> r.paths, inst |-> he.id, altered |-> FALSE]
    /\ UNCHANGED <<he, box, dec>>

\* he.encrypt(plaintext, pub)
Encrypt ==
    /\ he.id > 0
    /\ keys.held
    /\ ~box.held
    /\ \E plaintext \in SeqsUpTo(Byte, MaxPlain), seed \in Rand, n \in Rand,
          fails \in BOOLEAN :
          LET r == encrypt(he, plaintext, keys.pub, seed, n, fails)
          IN  box' = [held |-> TRUE, blob |-> r.blob, metadata |-> r.metadata,
                      plaintext |-> plaintext, path |-> r.path, paths |-> r.paths,
                      inst |-> he.id, tampered |-> 0, altered |-> "none"]
    /\ UNCHANGED <<he, keys, dec>>

\* what the caller holds is altered once before it is decrypted: a byte of
\* the blob, an entry of the metadata, or the private key
Unaltered == box.tampered = 0 /\ box.altered = "none" /\ ~keys.altered

\* one byte of the held blob is changed
TamperBlob ==
    /\ box.held
    /\ Unaltered
    /\ \E i \in 1..Len(box.blob) :
          box' = [box EXCEPT !.blob[i] = Sym("changed", 0, <<box.blob[i]>>),
                             !.tampered = i]
    /\ dec' = NoDecrypt
    /\ UNCHANGED <<he, keys>>

\* the metadata the caller holds is altered in one entry: the encapsulation
\* or the nonce replaced by the encoding of other bytes, or the method tag
\* replaced by the other tag
AlterMetadata ==
    /\ box.held
    /\ Unaltered
    /\ \E field \in {"kem_ciphertext", "nonce", "method"} :
          box' = [box EXCEPT
                    !.altered = field,
                    !.metadata[field] =
                        IF field = "method"
                        THEN (IF @ = METHOD_REAL THEN METHOD_SIMULATED ELSE METHOD_REAL)
                        ELSE b64encode(<<Sym("changed", 0, b64decode(@))>>
                                       \o Tail(b64decode(@)))]
    /\ dec' = NoDecrypt
    /\ UNCHANGED <<he, keys>>

\* the caller decrypts with other private key bytes than generate_kem_keypair
\* returned
AlterKey ==
    /\ box.held
    /\ Unaltered
    /\ keys' = [keys EXCEPT !.priv = <<Sym("changed", 0, @)>>, !.altered = TRUE]
    /\ dec' = NoDecrypt
    /\ UNCHANGED <<he, box>>

\* he.decrypt(blob, metadata, priv); again: a decrypt of this blob, metadata
\* and key has already returned or raised on this instance
Decrypt ==
    /\ he.id > 0
    /\ box.held
    /\ \E fails \in BOOLEAN :
          LET r == decrypt(he, box.blob, box.metadata, keys.priv, fails)
          IN  dec' = [call |-> "decrypt", fails |-> fails /\ he.kyber_available,
                      exc |-> r.exc, plaintext |-> r.plaintext, paths |-> r.paths,
                      nonce |-> r.nonce, again |-> dec.call = "decrypt"]
    /\ UNCHANGED <<he, keys, box>>

HybridInit ==
    /\ cmp = <<>>
    /\ zkp = <<>>
    /\ he = NoInstance
    /\ keys = NoKeys
    /\ box = NoBox
    /\ dec = NoDecrypt
    /\ up = <<>>
    /\ thr = <<>>

HybridNext ==
    \/ Construct /\ UNCHANGED <<cmp, zkp, up, thr>>
    \/ GenerateKemKeypair /\ UNCHANGED <<cmp, zkp, up, thr>>
    \/ Encrypt /\ UNCHANGED <<cmp, zkp, up, thr>>
    \/ TamperBlob /\ UNCHANGED <<cmp, zkp, up, thr>>
    \/ AlterMetadata /\ UNCHANGED <<cmp, zkp, up, thr>>
    \/ AlterKey /\ UNCHANGED <<cmp, zkp, up, thr>>
    \/ Decrypt /\ UNCHANGED <<cmp, zkp, up, thr>>

HybridSpec == HybridInit /\ [][HybridNext]_vars

(***************************************************************************)
(* The upload pipeline (app.py, tests/smoke_test.py).  Loading app.py      *)
(* constructs the encryptor once; an upload compresses, cuts the stream    *)
(* into chunks of 1024 bytes, commits to and proves the chunks, encrypts   *)
(* the stream and hands blob and proof to the uploader.  The smoke test    *)
(* verifies the same chunks against the proof.  Streams are taken around   *)
(* the multiples of the chunk size: k * 1024 + r bytes.  A compressed      *)
(* stream is never shorter than the stream of the empty data.              *)
(***************************************************************************)
CHUNK_SIZE == 1024

MaxFull == 2        \* most full chunks in a stream
MaxRest == 8        \* most bytes after the last multiple of the chunk size

\* range(start, stop, step)
RECURSIVE range(_, _, _)
range(start, stop, step) ==
    IF start >= stop THEN <<>> ELSE <<start>> \o range(start + step, stop, step)

\* seq[a:b]
Slice(seq, a, b) == SubSeq(seq, a + 1, Min(b, Len(seq)))

\* chunks one byte longer than the chunk size
split_chunks_off_by_one(compressed) ==
    LET starts == range(0, Len(compressed), CHUNK_SIZE + 1)
    IN  [k \in 1..Len(starts) |-> Slice(compressed, starts[k], starts[k] + CHUNK_SIZE + 1)]

\* [compressed[i:i+1024] for i in range(0, len(compressed), 1024)]
split_chunks(compressed) ==
    LET starts == range(0, Len(compressed), CHUNK_SIZE)
    IN  [k \in 1..Len(starts) |-> Slice(compressed, starts[k], starts[k] + CHUNK_SIZE)]

MinStream == Len(zlib_compress(<<>>, SENSITIVITY_LEVELS[DEFAULT_SENSITIVITY]))

StreamSizes ==
    {n \in {k * CHUNK_SIZE + r : k \in 0..MaxFull,
                                 r \in (0..MaxRest) \cup {CHUNK_SIZE - 1}} :
        n >= MinStream}

\* {}: a dict without keys
empty_dict == [key \in {} |-> <<>>]

NoStored == [enc |-> <<>>, proof |-> EmptyProof, status |-> 0, metadata |-> empty_dict]

NoUpload == [stage |-> "idle", compressed |-> <<>>, chunks |-> <<>>,
             proof |-> EmptyProof, ok |-> FALSE, stored |-> NoStored]

\* he = HybridEncryptor() as app.py is loaded; imported: what `import liboqs`
\* does.  __init__ catches ImportError only, so any other exception leaves
\* the constructor and app.py sets he = None (NoInstance)
LoadApp ==
    /\ up.stage = "unloaded"
    /\ \E imported \in {"ok", "ImportError", "Exception"} :
          he' = IF imported = "Exception" THEN NoInstance
                ELSE [id |-> 1, use_real_kyber |-> TRUE,
                      importable |-> imported = "ok",
                      kyber_available |-> imported = "ok"]
    /\ up' = NoUpload

\* comp = compressor.compress(data, sensitivity): a stream of n bytes, all
\* equal (step 0) or taking every value in turn (step 1)
CompressedStream ==
    /\ up.stage = "idle"
    /\ \E n \in StreamSizes, step \in 0..1 :
          up' = [NoUpload EXCEPT !.stage = "compressed",
                                 !.compressed = [i \in 1..n |-> (i * step) % (MaxByte + 1)]]

\* chunks = [comp[i:i+1024] for i in range(0, len(comp), 1024)]
SplitChunks ==
    /\ up.stage = "compressed"
    /\ up' = [up EXCEPT !.stage = "chunked", !.chunks = split_chunks(up.compressed)]

\* proof = zkp.make_proof(zkp.commitments(chunks))
MakeProof ==
    /\ up.stage = "chunked"
    /\ up' = [up EXCEPT !.stage = "proved", !.proof = make_proof(commitments(up.chunks))]

\* ok = zkp.verify(chunks, proof), the stream cut again in the same way
VerifyChunks ==
    /\ up.stage = "proved"
    /\ up' = [up EXCEPT !.stage = "verified",
                        !.ok = verify(split_chunks(up.compressed), up.proof).ret]

\* if he: pub, priv = he.generate_kem_keypair()
\*        enc_blob, metadata = he.encrypt(compressed, pub)
\* else:  enc_blob, metadata = compressed, {}
\* uploader.upload_local(..., enc_blob); uploader.upload_local(..., proof)
\* return jsonify({..., "metadata": metadata})
\* draw: which outcome the calls of os.urandom have in this upload; either
\* call of the encryptor may fall back
EncryptAndStore ==
    /\ up.stage = "proved"
    /\ IF he # NoInstance
       THEN \E draw \in Rand, keygen_fails \in BOOLEAN, encrypt_fails \in BOOLEAN :
               LET pair == generate_kem_keypair(he, draw, keygen_fails)
                   r    == encrypt(he, up.compressed, pair.pub, draw, draw,
                                   encrypt_fails)
               IN  up' = [up EXCEPT !.stage = "stored",
                                    !.stored = [enc |-> r.blob, proof |-> up.proof,
                                                status |-> 200, metadata |-> r.metadata]]
       ELSE up' = [up EXCEPT !.stage = "stored",
                             !.stored = [enc |-> up.compressed, proof |-> up.proof,
                                         status |-> 200, metadata |-> empty_dict]]

UploadInit ==
    /\ cmp = <<>>
    /\ zkp = <<>>
    /\ he = NoInstance
    /\ keys = <<>>
    /\ box = <<>>
    /\ dec = <<>>
    /\ up = [NoUpload EXCEPT !.stage = "unloaded"]
    /\ thr = <<>>

UploadNext ==
    \/ LoadApp /\ UNCHANGED <<cmp, zkp, keys, box, dec, thr>>
    \/ CompressedStream /\ UNCHANGED <<cmp, zkp, he, keys, box, dec, thr>>
    \/ SplitChunks /\ UNCHANGED <<cmp, zkp, he, keys, box, dec, thr>>
    \/ MakeProof /\ UNCHANGED <<cmp, zkp, he, keys, box, dec, thr>>
    \/ VerifyChunks /\ UNCHANGED <<cmp, zkp, he, keys, box, dec, thr>>
    \/ EncryptAndStore /\ UNCHANGED <<cmp, zkp, he, keys, box, dec, thr>>

UploadSpec == UploadInit /\ [][UploadNext]_vars

(***************************************************************************)
(* Concurrent calls.  Two threads call the shared instances of app.py      *)
(* (compressor, zkp, he), each with its own arguments.  A call is three    *)
(* steps: it is entered with its arguments, it reads what it needs of the  *)
(* instance (HybridEncryptor: self.kyber_available, read once, at the      *)
(* branch of the public method), and it returns.  The other thread's steps *)
(* fall anywhere in between.                                               *)
(***************************************************************************)
Threads == {"t1", "t2"}

ThreadData == SeqsUpTo(Byte, 1)

HybridOps == {"generate_kem_keypair", "encrypt", "decrypt"}

\* the calls a thread may make: op, the bytes it is given, the sensitivity,
\* the os.urandom draw, whether the library raises
Calls ==
    {[op |-> "generate_kem_keypair", data |-> <<>>, sensitivity |-> NoArg, r |-> r,
      fails |-> f] : r \in Rand, f \in BOOLEAN}
    \cup {[op |-> o, data |-> d, sensitivity |-> NoArg, r |-> r, fails |-> f] :
             o \in {"encrypt", "decrypt"}, d \in ThreadData, r \in Rand, f \in BOOLEAN}
    \cup {[op |-> "compress", data |-> d, sensitivity |-> sv, r |-> 1, fails |-> FALSE] :
             d \in ThreadData, sv \in DOMAIN SENSITIVITY_LEVELS}
    \cup {[op |-> "batch_commit", data |-> d, sensitivity |-> NoArg, r |-> 1,
           fails |-> FALSE] : d \in ThreadData}

\* what call returns when the instance it reads is self; built is the
\* instance that made the keypair and the blob a thread brings along
CallResult(self, built, call) ==
    LET pair   == generate_kem_keypair(built, call.r, FALSE)
        sealed == encrypt(built, call.data, pair.pub, call.r, call.r, FALSE)
    IN  CASE call.op = "generate_kem_keypair" ->
                 generate_kem_keypair(self, call.r, call.fails)
          [] call.op = "encrypt" ->
                 encrypt(self, call.data, pair.pub, call.r, call.r, call.fails)
          [] call.op = "decrypt" ->
                 decrypt(self, sealed.blob, sealed.metadata, pair.priv, call.fails)
          [] call.op = "compress" ->
                 compress(call.data, call.sensitivity)
          [] OTHER ->
                 make_proof(commitments([i \in 1..Len(call.data) |-> <<call.data[i]>>]))

NoThread == [pc |-> "idle", call |-> CHOOSE c \in Calls : TRUE, seen |-> FALSE,
             result |-> <<>>]

\* thread t enters a call
ThreadCall(t) ==
    /\ thr.calls[t].pc = "idle"
    /\ \E c \in Calls :
          thr' = [thr EXCEPT !.calls[t] = [NoThread EXCEPT !.pc = "called", !.call = c]]
    /\ UNCHANGED he

\* thread t reads self.kyber_available (hybrid.py:49, 87, 153); compress and
\* the BatchZKP methods read no attribute of their instance
ThreadBranch(t) ==
    /\ thr.calls[t].pc = "called"
    /\ thr' = [thr EXCEPT !.calls[t].pc = "branched",
                          !.calls[t].seen =
                              IF thr.calls[t].call.op \in HybridOps
                              THEN he.kyber_available ELSE FALSE]
    /\ UNCHANGED he

\* a return whose fallback clears the flag of the shared instance
ThreadReturn_clears_flag(t) ==
    /\ thr.calls[t].pc = "branched"
    /\ thr' = [thr EXCEPT !.calls[t].pc = "returned",
                          !.calls[t].result =
                              CallResult([he EXCEPT !.kyber_available = thr.calls[t].seen],
                                         thr.built, thr.calls[t].call)]
    /\ he' = [he EXCEPT !.kyber_available =
                  @ /\ ~(/\ thr.calls[t].call.op \in HybridOps
                         /\ thr.calls[t].seen
                         /\ thr.calls[t].call.fails)]

\* thread t runs the path it branched to and returns; no path writes an
\* attribute of the instance
ThreadReturn(t) ==
    /\ thr.calls[t].pc = "branched"
    /\ thr' = [thr EXCEPT !.calls[t].pc = "returned",
                          !.calls[t].result =
                              CallResult([he EXCEPT !.kyber_available = thr.calls[t].seen],
                                         thr.built, thr.calls[t].call)]
    /\ UNCHANGED he

ConcurrentInit ==
    /\ cmp = <<>>
    /\ zkp = <<>>
    /\ he \in {[id |-> 1, use_real_kyber |-> u, importable |-> importable,
                  kyber_available |-> u /\ importable] :
                   u \in BOOLEAN, importable \in BOOLEAN}
    /\ keys = <<>>
    /\ box = <<>>
    /\ dec = <<>>
    /\ up = <<>>
    /\ thr = [built |-> he, calls |-> [t \in Threads |-> NoThread]]

ConcurrentNext ==
    \/ \E t \in Threads : ThreadCall(t) /\ UNCHANGED <<cmp, zkp, keys, box, dec, up>>
    \/ \E t \in Threads : ThreadBranch(t) /\ UNCHANGED <<cmp, zkp, keys, box, dec, up>>
    \/ \E t \in Threads : ThreadReturn(t) /\ UNCHANGED <<cmp, zkp, keys, box, dec, up>>

ConcurrentSpec == ConcurrentInit /\ [][ConcurrentNext]_vars

(***************************************************************************)
(* Claims about the Compressor, checked under CompressorSpec.              *)
(***************************************************************************)

\* C8: a compress call whose sensitivity is not one of low, medium, high
\* (another string, or none given) ends in the validation error and returns
\* no output: zlib is not called and no level stands in for the missing one.
C8_InvalidSensitivityRejected ==
    (cmp.call = "compress" /\ cmp.arg \notin {"low", "medium", "high"})
        => (cmp.err = "ValueError" /\ cmp.level = 0 /\ cmp.out = <<>>)

\* the part of C8 the code keeps: a sensitivity that is passed and is not one
\* of the three levels ends in ValueError with no output
C8_UnrecognisedStringRejected ==
    (cmp.call = "compress" /\ cmp.arg \notin {"low", "medium", "high", NoArg})
        => (cmp.err = "ValueError" /\ cmp.level = 0 /\ cmp.out = <<>>)

\* C9: for each of the three levels and every data, the empty one included,
\* decompress(compress(data, level)) returns data.
C9_CompressRoundTrip ==
    cmp.call = "decompress" => (cmp.err = "none" /\ cmp.back = cmp.data)

C9_Witness ==
    /\ cmp.call = "decompress"
    /\ cmp.arg = "low"
    /\ Len(cmp.data) >= 2
    /\ cmp.data[1] = cmp.data[2]
    /\ Len(cmp.out) < 4 + 2 * Len(cmp.data)
    /\ cmp.back = cmp.data

\* C10: the policy is low -> 9 (the maximum), medium -> 6, high -> 1 (the
\* minimum), strictly decreasing, and a successful compress hands zlib
\* exactly the level of the sensitivity it was called with (the stream's
\* FLG byte shows it).
C10_PolicyLevels ==
    /\ SENSITIVITY_LEVELS["low"] = 9
    /\ SENSITIVITY_LEVELS["medium"] = 6
    /\ SENSITIVITY_LEVELS["high"] = 1
    /\ SENSITIVITY_LEVELS["low"] > SENSITIVITY_LEVELS["medium"]
    /\ SENSITIVITY_LEVELS["medium"] > SENSITIVITY_LEVELS["high"]
    /\ (cmp.call = "compress" /\ cmp.err = "none") =>
          /\ cmp.sensitivity = "low" => (cmp.level = 9 /\ cmp.out[2] = ZlibFlg(9))
          /\ cmp.sensitivity = "medium" => (cmp.level = 6 /\ cmp.out[2] = ZlibFlg(6))
          /\ cmp.sensitivity = "high" => (cmp.level = 1 /\ cmp.out[2] = ZlibFlg(1))

C10_Witness ==
    /\ cmp.call = "compress"
    /\ cmp.arg = "high"
    /\ cmp.level = 1
    /\ Len(cmp.data) >= 2
    /\ cmp.out[2] = ZlibFlg(1)

\* C17: get_compression_ratio returns 0 when original_size is 0, whatever
\* compressed_size is; otherwise it returns (1 - compressed / original) * 100
\* unclamped, negative exactly when compressed_size > original_size.
C17_RatioUnclamped ==
    cmp.call = "ratio" =>
        LET o == cmp.original_size
            c == cmp.compressed_size
            q == cmp.ratio
        IN  /\ q.den > 0
            /\ o = 0 => q.num = 0
            /\ o # 0 => /\ q.num * o = (o - c) * 100 * q.den
                        /\ q.num < 0 <=> c > o

\* an expansion: the ratio is below 0
C17_Witness ==
    /\ cmp.call = "ratio"
    /\ cmp.original_size > 0
    /\ cmp.compressed_size > cmp.original_size
    /\ cmp.ratio.num < 0

(***************************************************************************)
(* Claims about BatchZKP, checked under ZkpSpec.                           *)
(***************************************************************************)
RootMatches ==
    /\ "root" \in DOMAIN zkp.proof.fields
    /\ zkp.proof.fields["root"] = PyStr(sha256_hexdigest(Join(commitments(zkp.chunks))))

CountMatches ==
    /\ "num_commitments" \in DOMAIN zkp.proof.fields
    /\ zkp.proof.fields["num_commitments"] = PyInt(Len(zkp.chunks))

PrefixMatches ==
    /\ "commitment_hashes" \in DOMAIN zkp.proof.fields
    /\ zkp.proof.fields["commitment_hashes"]
          = PyList(Prefix(commitments(zkp.chunks), PREFIX_SAMPLE))

\* a record with a text root, an integer count and a list as prefix sample
WellFormed ==
    /\ zkp.proof.form = "json"
    /\ zkp.proof.top = "dict"
    /\ {"root", "num_commitments", "commitment_hashes"} \subseteq DOMAIN zkp.proof.fields
    /\ zkp.proof.fields["root"].ty = "str"
    /\ zkp.proof.fields["num_commitments"].ty = "int"
    /\ zkp.proof.fields["commitment_hashes"].ty = "list"

\* C4: for every non-empty chunk sequence, verify of those chunks against
\* make_proof(commitments(chunks)) returns true.
C4_HonestProofVerifies ==
    (zkp.call = "verify" /\ zkp.edit = "none" /\ zkp.forged = "none" /\ zkp.made # <<>>)
        => (zkp.exc = "none" /\ zkp.ret = TRUE)

C4_Witness ==
    /\ zkp.call = "verify"
    /\ zkp.edit = "none"
    /\ zkp.forged = "none"
    /\ Len(zkp.made) > PREFIX_SAMPLE
    /\ zkp.ret = TRUE

\* C5: with the proof of a non-empty chunk sequence, replacing one chunk, at
\* any index (also past the stored prefix sample), by a chunk with other
\* bytes makes verify return false.
C5_ReplacedChunkRejected ==
    (zkp.call = "verify" /\ zkp.edit = "replace" /\ zkp.forged = "none")
        => (zkp.exc = "none" /\ zkp.ret = FALSE)

C5_Witness ==
    /\ zkp.call = "verify"
    /\ zkp.edit = "replace"
    /\ zkp.forged = "none"
    /\ zkp.pos > PREFIX_SAMPLE
    /\ zkp.chunks # zkp.made
    /\ zkp.ret = FALSE

\* C6: verify returns false and lets no exception out when the chunk list
\* is empty, when the proof is empty, when the proof cannot be decoded or
\* parsed, and when it parses to something without the root, the count or
\* the prefix sample.
C6_VerifyFailsClosed ==
    (/\ zkp.call = "verify"
     /\ \/ zkp.chunks = <<>>
        \/ zkp.proof.form # "json"
        \/ zkp.proof.top # "dict"
        \/ ~({"root", "num_commitments", "commitment_hashes"}
                \subseteq DOMAIN zkp.proof.fields))
        => (zkp.exc = "none" /\ zkp.ret = FALSE)

\* the record has the matching root and prefix sample but no count: verify
\* gets as far as the count lookup
C6_Witness ==
    /\ zkp.call = "verify"
    /\ zkp.chunks # <<>>
    /\ zkp.proof.form = "json"
    /\ zkp.proof.top = "dict"
    /\ RootMatches
    /\ PrefixMatches
    /\ "num_commitments" \notin DOMAIN zkp.proof.fields
    /\ zkp.exc = "none"
    /\ zkp.ret = FALSE

\* C7: for non-empty chunks and a well-formed record, verify returns true
\* exactly when the recomputed root, the chunk count and the first three
\* recomputed commitments all equal the stored ones.
C7_VerifyIffAllThree ==
    (zkp.call = "verify" /\ zkp.chunks # <<>> /\ WellFormed)
        => (zkp.ret = (RootMatches /\ CountMatches /\ PrefixMatches))

\* root and count match, the prefix sample alone differs
C7_Witness ==
    /\ zkp.call = "verify"
    /\ zkp.chunks # <<>>
    /\ WellFormed
    /\ RootMatches
    /\ CountMatches
    /\ ~PrefixMatches
    /\ zkp.ret = FALSE

\* C14: make_proof on no commitment returns the zero-length artifact, and
\* verify accepts that artifact for no chunk sequence; on n >= 1 commitments
\* it returns a record whose root is the hash of the n commitments
\* concatenated in order, whose count is n and whose prefix sample is the
\* first min(3, n) commitments in order.
C14_MakeProofContents ==
    /\ (zkp.call # "none" /\ zkp.forged = "none") =>
          LET cl == commitments(zkp.made)
              n  == Len(cl)
              f  == zkp.proof.fields
          IN  IF n = 0 THEN zkp.proof.form = "empty" /\ len_bytes(zkp.proof) = 0
              ELSE /\ zkp.proof.form = "json"
                   /\ zkp.proof.top = "dict"
                   /\ f["root"] = PyStr(sha256_hexdigest(Join(cl)))
                   /\ f["num_commitments"] = PyInt(n)
                   /\ f["commitment_hashes"].ty = "list"
                   /\ Len(f["commitment_hashes"].l) = Min(3, n)
                   /\ \A k \in 1..Min(3, n) : f["commitment_hashes"].l[k] = PyStr(cl[k])
    /\ (zkp.call = "verify" /\ zkp.proof.form = "empty") =>
          (zkp.exc = "none" /\ zkp.ret = FALSE)

\* a proof of more commitments than the sample holds
C14_Witness ==
    /\ zkp.call = "batch_commit"
    /\ Len(zkp.made) > PREFIX_SAMPLE
    /\ zkp.proof.fields["num_commitments"] = PyInt(Len(zkp.made))
    /\ Len(zkp.proof.fields["commitment_hashes"].l) = PREFIX_SAMPLE

\* the count get_proof_size_info divides by is a number other than 0
UsableCount ==
    /\ zkp.proof.form = "json"
    /\ zkp.proof.top = "dict"
    /\ "num_commitments" \in DOMAIN zkp.proof.fields
    /\ zkp.proof.fields["num_commitments"].ty = "int"
    /\ zkp.proof.fields["num_commitments"].i # 0

\* C16: get_proof_size_info lets no exception out and always reports
\* len(proof); for a record with a non-zero count it also reports the count,
\* the scheme tag and len(proof) / (32 * count); for an empty artifact, one
\* that cannot be decoded or parsed, one that is not a record, and a record
\* whose count is 0, it reports the size alone.
C16_SizeInfoNeverRaises ==
    zkp.call = "size_info" =>
        /\ zkp.exc = "none"
        /\ zkp.info.exc = "none"
        /\ zkp.info.proof_bytes = len_bytes(zkp.proof)
        /\ UsableCount =>
              /\ zkp.info.full
              /\ zkp.info.num_commitments = zkp.proof.fields["num_commitments"]
              /\ "proof_type" \in DOMAIN zkp.proof.fields =>
                    zkp.info.proof_type = zkp.proof.fields["proof_type"]
              /\ zkp.info.compression_ratio
                    = <<len_bytes(zkp.proof), 32 * zkp.proof.fields["num_commitments"].i>>
        /\ (\/ zkp.proof.form # "json"
            \/ zkp.proof.top # "dict"
            \/ /\ "num_commitments" \in DOMAIN zkp.proof.fields
               /\ zkp.proof.fields["num_commitments"] = PyInt(0))
              => ~zkp.info.full

\* a record with the right root and a count of 0: the division raises inside
C16_Witness ==
    /\ zkp.call = "size_info"
    /\ zkp.proof.form = "json"
    /\ zkp.proof.top = "dict"
    /\ "num_commitments" \in DOMAIN zkp.proof.fields
    /\ zkp.proof.fields["num_commitments"] = PyInt(0)
    /\ ~zkp.info.full
    /\ zkp.info.proof_bytes > 0
    /\ zkp.exc = "none"

(***************************************************************************)
(* Claims about chunk order, checked under OrderSpec.                      *)
(***************************************************************************)

\* C22: commitments returns one commitment per chunk, in input order, the
\* i-th being the commitment of the i-th chunk alone; and with the proof made
\* from a chunk sequence, verify returns false for every reordering of the
\* sequence that puts other bytes at some position, whichever positions move.
C22_OrderIsBound ==
    /\ zkp.call # "none" =>
          /\ Len(commitments(zkp.chunks)) = Len(zkp.chunks)
          /\ \A i \in 1..Len(zkp.chunks) :
                commitments(zkp.chunks)[i] = commitments(<<zkp.chunks[i]>>)[1]
    /\ (zkp.call = "verify" /\ zkp.edit = "reorder") =>
          (zkp.exc = "none" /\ zkp.ret = FALSE)

\* a reordering that leaves the sampled first three chunks where they were
C22_Witness ==
    /\ zkp.call = "verify"
    /\ zkp.edit = "reorder"
    /\ zkp.pos > PREFIX_SAMPLE
    /\ zkp.chunks # zkp.made
    /\ Prefix(zkp.chunks, PREFIX_SAMPLE) = Prefix(zkp.made, PREFIX_SAMPLE)
    /\ zkp.ret = FALSE

(***************************************************************************)
(* Claims about the chunking, checked under UploadSpec.                    *)
(***************************************************************************)

\* C15: a compressed stream of s bytes is cut into exactly ceil(s / 1024)
\* chunks, each of at most 1024 bytes and all but the last of exactly 1024,
\* whose concatenation in order is the stream; the count of the proof made
\* from those chunks is that number of chunks.
C15_ChunkCount ==
    up.stage \in {"chunked", "proved", "verified"} =>
        LET s == Len(up.compressed)
            n == Len(up.chunks)
        IN  /\ (n - 1) * 1024 < s
            /\ s <= n * 1024
            /\ \A k \in 1..n : Len(up.chunks[k]) >= 1 /\ Len(up.chunks[k]) <= 1024
            /\ \A k \in 1..(n - 1) : Len(up.chunks[k]) = 1024
            /\ Join(up.chunks) = up.compressed
            /\ up.stage # "chunked" =>
                  /\ up.proof.form = "json"
                  /\ up.proof.fields["num_commitments"] = PyInt(n)

\* a stream of two full chunks and a shorter third one
C15_Witness ==
    /\ up.stage = "proved"
    /\ Len(up.compressed) > 2 * 1024
    /\ Len(up.chunks) = 3
    /\ Len(up.chunks[3]) < 1024
    /\ up.proof.fields["num_commitments"] = PyInt(3)

(***************************************************************************)
(* Claims about the stored blob, checked under UploadSpec.                 *)
(***************************************************************************)

\* blob is what encrypt returns for plaintext: the nonce, the AES-GCM
\* ciphertext of every byte of plaintext in order, and the tag
IsEncryptOutput(blob, plaintext) ==
    /\ Len(blob) = NONCE_LEN + Len(plaintext) + 1
    /\ \A i \in 1..NONCE_LEN : blob[i].t = "random"
    /\ \A i \in 1..Len(plaintext) :
          /\ blob[NONCE_LEN + i].t = "gcm_ct"
          /\ blob[NONCE_LEN + i].n = plaintext[i]
    /\ blob[Len(blob)].t = "gcm_tag"

HasMethodTag(metadata) ==
    /\ "method" \in DOMAIN metadata
    /\ metadata["method"] \in {METHOD_REAL, METHOD_SIMULATED}

\* C23: in the upload pipeline the blob handed to storage is always the
\* output of encrypt, with metadata that carries a method tag; an upload
\* never completes by storing the compressed payload unencrypted with empty
\* metadata, whatever happened when the encryptor was constructed.
C23_StoredBlobIsEncrypted ==
    (up.stage = "stored" /\ up.stored.status = 200) =>
        /\ IsEncryptOutput(up.stored.enc, up.compressed)
        /\ HasMethodTag(up.stored.metadata)

\* with an encryptor constructed, what is stored is the output of encrypt
\* and the response carries a method tag, whichever path either call took
C23_EncryptedWhenConstructed ==
    (up.stage = "stored" /\ he # NoInstance) =>
        /\ IsEncryptOutput(up.stored.enc, up.compressed)
        /\ HasMethodTag(up.stored.metadata)
        /\ up.stored.metadata["method"] = METHOD_REAL => he.kyber_available

\* without one (he = None), the upload completes and what is stored is the
\* compressed payload itself, with metadata {}
C23_PlainWhenNotConstructed ==
    (up.stage = "stored" /\ he = NoInstance) =>
        /\ up.stored.status = 200
        /\ up.stored.enc = up.compressed
        /\ DOMAIN up.stored.metadata = {}
        /\ up.stored.proof = up.proof

(***************************************************************************)
(* Claims about concurrent calls, checked under ConcurrentSpec.            *)
(***************************************************************************)

\* C18: however the steps of two concurrent calls on the shared instances
\* interleave, each call returns what it returns when it runs alone on the
\* instance as constructed, and the instance is left as constructed: no
\* call writes what another reads.
C18_CallsDoNotInterfere ==
    /\ he = thr.built
    /\ \A t \in Threads :
          thr.calls[t].pc = "returned" =>
              thr.calls[t].result = CallResult(thr.built, thr.built, thr.calls[t].call)

\* one thread's key generation fell back, the other thread's encrypt read
\* the flag as true and ran the real path, and both have returned
C18_Witness ==
    /\ he.kyber_available
    /\ thr.calls["t1"].pc = "returned"
    /\ thr.calls["t1"].call.op = "generate_kem_keypair"
    /\ thr.calls["t1"].call.fails
    /\ thr.calls["t2"].pc = "returned"
    /\ thr.calls["t2"].call.op = "encrypt"
    /\ thr.calls["t2"].seen
    /\ thr.calls["t2"].result.paths = <<"real">>

(***************************************************************************)
(* Claims about HybridEncryptor, checked under HybridSpec.                 *)
(***************************************************************************)

\* C1: in both KEM modes, decrypt of the (blob, metadata) that encrypt
\* returned for a plaintext under the public key of generate_kem_keypair,
\* with that keypair's private key on the same instance, returns the
\* plaintext.  (Stated for the decrypt calls in which the library itself
\* does not raise: a key the library cannot decapsulate is lost to any code.)
C1_EncryptDecryptRoundTrip ==
    (/\ dec.call = "decrypt"
     /\ ~dec.fails
     /\ box.tampered = 0
     /\ box.altered = "none"
     /\ ~keys.altered
     /\ keys.inst = he.id
     /\ box.inst = he.id)
        => (dec.exc = "none" /\ dec.plaintext = box.plaintext)

\* the part of C1 the code keeps: the round trip holds whenever the keypair
\* and the blob were made on the same path (both real or both simulated)
C1_SamePathRoundTrip ==
    (/\ dec.call = "decrypt"
     /\ ~dec.fails
     /\ box.tampered = 0
     /\ box.altered = "none"
     /\ ~keys.altered
     /\ keys.inst = he.id
     /\ box.inst = he.id
     /\ keys.path = box.path)
        => (dec.exc = "none" /\ dec.plaintext = box.plaintext)

\* C2: after one byte of the blob is changed, at any position (the 12-byte
\* nonce prefix included), decrypt with the unchanged metadata and the
\* matching private key ends in the authentication failure and returns
\* nothing.
C2_TamperedBlobFailsAuthentication ==
    (dec.call = "decrypt" /\ box.tampered > 0 /\ box.altered = "none" /\ ~keys.altered)
        => dec.exc = "InvalidTag"

\* the part of C2 the code keeps: a changed byte after the nonce prefix
\* fails authentication, and no decrypt returns another plaintext
C2_BodyTamperFailsAuthentication ==
    /\ (dec.call = "decrypt" /\ box.tampered > NONCE_LEN) => dec.exc = "InvalidTag"
    /\ (dec.call = "decrypt" /\ dec.exc = "none") => dec.plaintext = box.plaintext

\* C3: decrypt takes the path the metadata's method tag names: a blob tagged
\* simulated is decrypted by the simulated path even where the real KEM is
\* available, and a blob tagged real never goes through the simulated path.
C3_DecryptFollowsMethodTag ==
    dec.call = "decrypt" =>
        /\ box.metadata.method = METHOD_SIMULATED => dec.paths = <<"simulated">>
        /\ box.metadata.method = METHOD_REAL => dec.paths = <<"real">>

\* C11: the method tag of the metadata encrypt returns names the KEM path
\* that made the blob: the real tag exactly when the real encapsulation
\* succeeded (the metadata then carries a Kyber ciphertext), the simulated
\* tag on an instance in simulated mode and after a real-mode call fell back
\* (the metadata then carries the random seed).
C11_MethodTagNamesPath ==
    (box.held /\ box.altered = "none") =>
        LET kem == b64decode(box.metadata.kem_ciphertext)[1]
        IN  /\ box.metadata.method \in {METHOD_REAL, METHOD_SIMULATED}
            /\ box.metadata.method = METHOD_REAL
                  <=> (box.paths = <<"real">> /\ box.path = "real" /\ kem.t = "kyber_ct")
            /\ box.metadata.method = METHOD_SIMULATED
                  <=> (/\ box.paths \in {<<"simulated">>, <<"real", "simulated">>}
                       /\ box.path = "simulated"
                       /\ kem.t = "random32")

\* a real-mode encrypt that fell back
C11_Witness ==
    /\ box.held
    /\ box.altered = "none"
    /\ box.paths = <<"real", "simulated">>
    /\ box.metadata.method = METHOD_SIMULATED

\* C12: kyber_available is set at construction (true when the real KEM was
\* asked for and liboqs could be imported, false otherwise) and no
\* generate_kem_keypair, encrypt or decrypt call changes it: on an instance
\* whose flag is true every call enters the real path first, also after an
\* earlier call fell back, and on an instance whose flag is false every call
\* runs the simulated path only.
C12_FlagSetOnce ==
    /\ [][he'.id = he.id => he' = he]_vars
    /\ [](/\ he.kyber_available = (he.use_real_kyber /\ he.importable)
          /\ (keys.held /\ keys.inst = he.id) =>
                 keys.paths[1] = (IF he.kyber_available THEN "real" ELSE "simulated")
          /\ (box.held /\ box.inst = he.id) =>
                 box.paths[1] = (IF he.kyber_available THEN "real" ELSE "simulated")
          /\ dec.call = "decrypt" =>
                 dec.paths[1] = (IF he.kyber_available THEN "real" ELSE "simulated")
          /\ ~he.kyber_available =>
                 /\ (keys.held /\ keys.inst = he.id) => keys.paths = <<"simulated">>
                 /\ (box.held /\ box.inst = he.id) => box.paths = <<"simulated">>
                 /\ dec.call = "decrypt" => dec.paths = <<"simulated">>)

\* key generation fell back, and the encrypt and decrypt after it entered
\* the real path again
C12_Witness ==
    /\ he.kyber_available
    /\ keys.inst = he.id
    /\ keys.paths = <<"real", "simulated">>
    /\ box.inst = he.id
    /\ box.paths[1] = "real"
    /\ dec.call = "decrypt"
    /\ dec.paths[1] = "real"

\* C13: Decrypted and AuthFailed are terminal: after a decrypt of a blob,
\* metadata and key has returned or failed authentication, no further decrypt
\* of the same blob, metadata and key is accepted.
C13_DecryptIsTerminal ==
    ~dec.again

\* C19: the blob encrypt returns is the 12-byte nonce followed by ciphertext
\* and tag, its first 12 bytes are the nonce recorded in the metadata, and
\* decrypt hands AES-GCM the first 12 bytes of the blob it is given as nonce.
C19_NonceFromBlobPrefix ==
    /\ (box.held /\ Unaltered) =>
          /\ Len(box.blob) = NONCE_LEN + Len(box.plaintext) + 1
          /\ SubSeq(box.blob, 1, NONCE_LEN) = b64decode(box.metadata.nonce)
    /\ dec.call = "decrypt" => dec.nonce = SubSeq(box.blob, 1, NONCE_LEN)

\* the part of C19 the code keeps: the layout of the blob encrypt returns;
\* decrypt takes its nonce from the metadata
C19_BlobLayout ==
    /\ (box.held /\ Unaltered) =>
          /\ Len(box.blob) = NONCE_LEN + Len(box.plaintext) + 1
          /\ SubSeq(box.blob, 1, NONCE_LEN) = b64decode(box.metadata.nonce)
    /\ dec.call = "decrypt" => dec.nonce = b64decode(box.metadata.nonce)

\* C20: whatever was altered after encryption (a byte of the blob, an entry
\* of the metadata, the private key), a decrypt that returns a value returns
\* exactly the plaintext given to encrypt, also when the value comes from the
\* simulated path after the real path failed; every other decrypt ends in an
\* error and returns nothing.
C20_NoOtherPlaintext ==
    dec.call = "decrypt" =>
        /\ dec.exc = "none" => dec.plaintext = box.plaintext
        /\ dec.exc # "none" => (dec.exc = "InvalidTag" /\ dec.plaintext = <<>>)

\* an altered pair decrypted through the fallback: the real path failed, the
\* simulated path returned the plaintext
C20_Witness ==
    /\ dec.call = "decrypt"
    /\ ~Unaltered
    /\ dec.paths = <<"real", "simulated">>
    /\ dec.exc = "none"
    /\ Len(box.plaintext) >= 1
    /\ dec.plaintext = box.plaintext

\* C21: on an instance in real mode the round trip recovers the plaintext
\* whichever of generate_kem_keypair, encrypt and decrypt fell back to the
\* simulated path: decrypt of the unaltered (blob, metadata) with the
\* keypair's private key returns the plaintext given to encrypt.
C21_RoundTripUnderFallbacks ==
    (/\ dec.call = "decrypt"
     /\ he.kyber_available
     /\ keys.inst = he.id
     /\ box.inst = he.id
     /\ Unaltered)
        => (dec.exc = "none" /\ dec.plaintext = box.plaintext)

\* what the code does instead: in real mode the plaintext comes back exactly
\* when keypair and blob were made on the same path and, if that path is the
\* real one, the decrypt did not fall back; every other combination ends in
\* InvalidTag
C21_FallbackOutcomes ==
    (/\ dec.call = "decrypt"
     /\ he.kyber_available
     /\ keys.inst = he.id
     /\ box.inst = he.id
     /\ Unaltered)
        => /\ (dec.exc = "none" /\ dec.plaintext = box.plaintext)
                <=> (keys.path = box.path /\ (box.path = "simulated" \/ ~dec.fails))
           /\ dec.exc \in {"none", "InvalidTag"}

====
